---- MODULE Spec2Model ----
(***************************************************************************)
(* SMPTE 2038 decoder of modules/codec/smpte2038.c: the ingestion path     *)
(* (Decode -> pe_push -> pes_cb), the queue of raw PES packets, the single *)
(* pending subpicture slot, the PTS skew, and the display-time drain       *)
(* (SubpictureTextUpdateSmpte2038) run by the host on a second thread.     *)
(***************************************************************************)
EXTENDS Integers, Sequences, FiniteSets, TLC

(* ---- bounds of the model ---- *)
\* PES packets the extractor delivers to pes_cb over one run
MaxPackets == 3
\* declared PES PTS values are 0..MaxPTS, block (demux) PTS values 1..MaxPTS
MaxPTS == 1
\* failures injected over one run: a PES packet that does not parse, an
\* allocation that fails, a line that does not convert
MaxFaults == 1

\* "each 2038 PES packet will only carry a single VANC line worth of data"
LinesPerPES == 1
\* lines of a PES packet in SpecLines, where pkt->lineCount is 1..MaxLines
MaxLines == 2

\* the null subpicture pointer; subpictures are numbered from 1
NULL == 0

\* the updater's p_block before it has peeked anything
NoBlock == [id |-> 0, i_pts |-> 0, lineCount |-> 0]

PTSVals == 0..MaxPTS
DemuxVals == 1..MaxPTS

VARIABLES
    \* struct decoder_sys_t
    subpic,        \* pending subpicture (index into spus) or NULL
    fifo,          \* block_fifo_t: sequence of queued blocks
    i_last_pts,    \* PTS of the last PES packet that opened a subpicture
    i_demux_pts,   \* PTS of the block Decode is ingesting
    i_pts_skew,    \* skew added to every declared PES PTS
    \* subpictures created so far, in creation order
    spus,
    \* control state of the two threads
    dpc,           \* decoder thread: "idle" or "push" (inside pe_push)
    upc,           \* display thread: "idle", "size", "show", "get"
    cur,           \* subpicture whose updater is running, or NULL
    p_block,       \* the updater's local p_block: the block it peeked or popped
    \* observation of the run
    npkt,          \* PES packets delivered to pes_cb so far
    nfault,        \* failures injected so far
    nopen,         \* subpictures opened during the current Decode call
    arrived,       \* ids of the blocks put on the fifo, in order
    removed,       \* ids of the blocks taken off the fifo, in order
    mustDrain,     \* blocks queued when the running drain began, if all were due
    drainFrom,     \* blocks put on the fifo before the running drain began
    dres,          \* how the running drain's last pop ended: the outcome, and
                   \* the lines that became regions before it
    ev,            \* what the last pes_cb call of the running pe_push saw and did
    \* the decoder instance and its PES extractor
    p_sys,         \* p_dec->p_sys: "alloc" between Open and Close, else "freed"
    pushed,        \* the transport stream bytes handed to Decode so far
    pe_buf,        \* bytes the extractor has accumulated (offsets into pushed)
    emitted,       \* the PES payloads the extractor has passed to its callback
    discAt,        \* bytes handed to Decode up to the end of the last block
                   \* that was flagged corrupted
    \* the SCTE-35 decoder
    s35,           \* what the last Decode call of scte35.c did
    \* the host's calls
    call,          \* the last block handed to smpte2038.c's Decode: its
                   \* flags, its i_pts and what Decode returned at once
    fmt,           \* fmt_dst of the last call of the updater: i_sar_num and
                   \* i_sar_den
    \* mediacodec.c: decoder_sys_t
    b_flush_out,       \* set by a flush to make the output thread flush
    b_output_ready,    \* the output thread may start to dequeue output
    b_input_dequeued,  \* an input buffer was dequeued since the last flush
    b_error,           \* the decoder is aborted
    i_csd_send,        \* CSD blocks fetched by GetNextBlock since the last flush
    \* mediacodec.c: the decoder thread
    mpc,               \* "idle", "flushwait" (in vlc_cond_wait of
                       \* DecodeFlushLocked), "dq_in" (in dequeue_in, lock
                       \* released), "join" (in vlc_join), "closed"
    caller,            \* who called the running DecodeFlushLocked
    pp_block,          \* *pp_block of the running DecodeCommon: "data", or
                       \* "null" once the block was queued or released
    next_block,        \* the block GetNextBlock returned last: a CSD index,
                       \* "data" or "none"
    b_dequeue_timeout, \* DecodeCommon's local flag
    \* mediacodec.c: the output thread
    opc,               \* "wait" (loop head and its vlc_cond_wait), "unlocked"
                       \* (lock released, dequeue_out not yet entered),
                       \* "dq_out" (waiting in dequeue_out), "ret"
                       \* (dequeue_out has returned), "stopped"
    i_index,           \* what dequeue_out returned: "buffer" or "error"
    cancelled,         \* vlc_cancel(out_thread) was called
    \* the codec behind mc_api
    mc_pending,        \* data buffers queued whose output was not dequeued
    mc_queued,         \* the buffers queued since the last start or flush
    \* observation of the run
    ncalls,            \* calls of DecodeCommon and DecodeFlush so far
    last_in,           \* how the last dequeue_in of the running DecodeCommon
                       \* ended: "none", "queued" or "tryagain"
    n_invalidate,      \* InvalidateAllPictures calls of the running DecodeCommon
    aborted_by         \* what aborted the decoder: "none" or the failing call

vars == <<subpic, fifo, i_last_pts, i_demux_pts, i_pts_skew, spus, dpc, upc,
          cur, p_block, npkt, nfault, nopen, arrived, removed, mustDrain,
          drainFrom, dres, ev, p_sys, pushed, pe_buf, emitted, discAt, s35,
          call, fmt,
          b_flush_out, b_output_ready, b_input_dequeued, b_error, i_csd_send,
          mpc, caller, pp_block, next_block, b_dequeue_timeout,
          opc, i_index, cancelled, mc_pending, mc_queued,
          ncalls, last_in, n_invalidate, aborted_by>>

decvars == <<subpic, i_last_pts, i_demux_pts, i_pts_skew, dpc, npkt,
             nopen, arrived, ev>>

updvars == <<upc, cur, p_block, mustDrain, drainFrom, dres>>

othervars == <<p_sys, pushed, pe_buf, emitted, discAt, s35>>

hostvars == <<call, fmt>>

\* the state of mediacodec.c
mcvars == <<b_flush_out, b_output_ready, b_input_dequeued, b_error, i_csd_send,
            mpc, caller, pp_block, next_block, b_dequeue_timeout,
            opc, i_index, cancelled, mc_pending, mc_queued,
            ncalls, last_in, n_invalidate, aborted_by>>

\* the state of smpte2038.c, scte35.c and their host
sdivars == <<subpic, fifo, i_last_pts, i_demux_pts, i_pts_skew, spus, dpc,
             upc, cur, p_block, npkt, nfault, nopen, arrived, removed,
             mustDrain, drainFrom, dres, ev, p_sys, pushed, pe_buf, emitted,
             discAt, s35, call, fmt>>

\* Decode has not been called
NoCall == [flags |-> "none", i_pts |-> 0, ret |-> "none"]

\* the updater has not been called
NoFmt == [i_sar_num |-> 1, i_sar_den |-> 1, called |-> FALSE]

\* scte35.c's Decode has not been called
NoCall35 ==
    [blk |-> "none", i_pts |-> 0, released |-> 0, spu |-> "none",
     i_start |-> 0, i_stop |-> 0, ret |-> "NULL"]

\* the running drain has popped nothing yet
NoOutcome == [res |-> "none", k |-> 0]

\* no pes_cb call has been made in the running pe_push; res is how the last
\* call ended ("ok", "noparse", "nospu", "noblk") and prior how the call
\* before it in the same pe_push ended
NoEvent ==
    [parsed |-> FALSE, PTS |-> 0, pend0 |-> FALSE, last0 |-> 0, skew0 |-> 0,
     spuOk |-> TRUE, blkOk |-> TRUE, opened |-> FALSE, enq |-> FALSE,
     len0 |-> 0, key |-> 0, res |-> "none", prior |-> "none"]

\* mediacodec.c after OpenDecoder: the codec is started, the output thread
\* is at the head of its loop, nothing was queued
McInit ==
    /\ b_flush_out = FALSE
    /\ b_output_ready = FALSE
    /\ b_input_dequeued = FALSE
    /\ b_error = FALSE
    /\ i_csd_send = 0
    /\ mpc = "idle"
    /\ caller = [who |-> "none", nb |-> "ok"]
    /\ pp_block = "null"
    /\ next_block = [kind |-> "none", idx |-> 0]
    /\ b_dequeue_timeout = FALSE
    /\ opc = "wait"
    /\ i_index = "none"
    /\ cancelled = FALSE
    /\ mc_pending = 0
    /\ mc_queued = <<>>
    /\ ncalls = 0
    /\ last_in = "none"
    /\ n_invalidate = 0
    /\ aborted_by = "none"

(* ---- Open: calloc'ed decoder_sys_t, empty fifo ---- *)
Init ==
    /\ subpic = NULL
    /\ fifo = <<>>
    /\ i_last_pts = 0
    /\ i_demux_pts = 0
    /\ i_pts_skew = 0
    /\ spus = <<>>
    /\ dpc = "idle"
    /\ upc = "idle"
    /\ cur = NULL
    /\ p_block = NoBlock
    /\ npkt = 0
    /\ nfault = 0
    /\ nopen = 0
    /\ arrived = <<>>
    /\ removed = <<>>
    /\ mustDrain = 0
    /\ drainFrom = 0
    /\ dres = NoOutcome
    /\ ev = NoEvent
    /\ p_sys = "alloc"
    /\ pushed = <<>>
    /\ pe_buf = <<>>
    /\ emitted = <<>>
    /\ discAt = 0
    /\ s35 = NoCall35
    /\ call = NoCall
    /\ fmt = NoFmt
    /\ McInit

(* ---- pes_cb ---- *)
\* pkt->PTS += p_sys->i_pts_skew
SkewedPTS(pts, skew) == pts + skew

\* a mutation of PtsChanged: the subpic == NULL gate is missing
PtsChangedNoGate(pts, last, pending) == pts # last

\* a mutation of PtsChanged: the comparison with i_last_pts is missing
PtsChangedNoLast(pts, last, pending) == pending = NULL

\* the test that opens a new subpicture
PtsChanged(pts, last, pending) == pts # last /\ pending = NULL

\* a mutation of SkewAfter: the i_pts_skew == 0 test is missing
SkewAlways(skew, demux, pts) == demux - pts

\* if (p_sys->i_pts_skew == 0) p_sys->i_pts_skew = p_sys->i_demux_pts - pkt->PTS
SkewAfter(skew, demux, pts) == IF skew = 0 THEN demux - pts ELSE skew

\* the block put on the fifo: a copy of the PES bytes, stamped with pkt->PTS
NewBlock(id, key, n) == [id |-> id, i_pts |-> key, lineCount |-> n]

\* block_FifoPut(p_sys->p_fifo, p_block): the block goes to the tail
FifoAfterPut(q, b) == Append(q, b)

\* a mutation of Enqueues: the return after a failed subpicture allocation is
\* missing
EnqueuesDespiteNoSpu(open, spuOk, blkOk) == blkOk

\* a mutation of Enqueues: only a packet that opened a subpicture is queued
EnqueuesOnlyIfOpened(open, spuOk, blkOk) == open /\ spuOk /\ blkOk

\* whether pes_cb reaches block_FifoPut: it returns early when the new
\* subpicture or the block cannot be allocated
Enqueues(open, spuOk, blkOk) == (open => spuOk) /\ blkOk

\* the host's clock ticks per second (microseconds)
CLOCK_FREQ == 1000000

\* a / b of C on signed integers: the quotient is truncated towards zero
CDiv(a, b) == IF a >= 0 THEN a \div b ELSE -((-a) \div b)

\* p_spu->i_start = pkt->PTS * 100 / 9: 90 kHz ticks to microseconds
StartOf(key) == CDiv(key * 100, 9)

\* a mutation of StopAfter: the window of the disabled variant of the code
StopTenSeconds(start) == start + CLOCK_FREQ * 10

\* p_spu->i_stop = p_spu->i_start + (CLOCK_FREQ / 30)
StopAfter(start) == start + CDiv(CLOCK_FREQ, 30)

\* a mutation of NewSpu: the subpicture is populated at ingestion
NewSpuPopulated(key) ==
    [i_pts |-> key, p_region |-> <<[id |-> 0, line |-> 1]>>, owner |-> "dec",
     i_start |-> StartOf(key), i_stop |-> StopAfter(StartOf(key))]

\* the empty subpicture pes_cb creates
NewSpu(key) ==
    [i_pts |-> key, p_region |-> <<>>, owner |-> "dec",
     i_start |-> StartOf(key), i_stop |-> StopAfter(StartOf(key))]

\* a mutation of PesCbParseFail: the failure path forgets the last PTS seen
PesCbParseFailForgets ==
    /\ dpc = "push"
    /\ npkt < MaxPackets
    /\ nfault < MaxFaults
    /\ npkt' = npkt + 1
    /\ nfault' = nfault + 1
    /\ ev' = [NoEvent EXCEPT !.pend0 = (subpic # NULL), !.last0 = i_last_pts,
                             !.skew0 = i_pts_skew, !.len0 = Len(arrived),
                             !.res = "noparse", !.prior = ev.res]
    /\ i_last_pts' = 0
    /\ UNCHANGED <<subpic, fifo, i_demux_pts, i_pts_skew, spus,
                   dpc, nopen, arrived, removed>>
    /\ UNCHANGED updvars
    /\ UNCHANGED othervars
    /\ UNCHANGED hostvars
    /\ UNCHANGED mcvars

\* smpte2038_parse_pes_packet failed: return 0 before anything is touched
PesCbParseFail ==
    /\ dpc = "push"
    /\ npkt < MaxPackets
    /\ nfault < MaxFaults
    /\ npkt' = npkt + 1
    /\ nfault' = nfault + 1
    /\ ev' = [NoEvent EXCEPT !.pend0 = (subpic # NULL), !.last0 = i_last_pts,
                             !.skew0 = i_pts_skew, !.len0 = Len(arrived),
                             !.res = "noparse", !.prior = ev.res]
    /\ UNCHANGED <<subpic, fifo, i_last_pts, i_demux_pts, i_pts_skew, spus,
                   dpc, nopen, arrived, removed>>
    /\ UNCHANGED updvars
    /\ UNCHANGED othervars
    /\ UNCHANGED hostvars
    /\ UNCHANGED mcvars

\* a PES packet that parses; spuOk and blkOk are the outcomes of
\* decoder_NewSubpictureSmpte2038 and block_Alloc (TRUE when not called)
PesCb(pts, n, spuOk, blkOk) ==
    /\ dpc = "push"
    /\ npkt < MaxPackets
    /\ LET id == Len(arrived) + 1
           key == SkewedPTS(pts, i_pts_skew)
           open == PtsChanged(key, i_last_pts, subpic)
           made == open /\ spuOk
           put == Enqueues(open, spuOk, blkOk)
       IN /\ (~open => spuOk)
          /\ ((open /\ ~spuOk) => blkOk)
          /\ (spuOk /\ blkOk) \/ nfault < MaxFaults
          /\ npkt' = npkt + 1
          /\ nfault' = IF spuOk /\ blkOk THEN nfault ELSE nfault + 1
          /\ IF made
             THEN /\ spus' = Append(spus, NewSpu(key))
                  /\ subpic' = Len(spus) + 1
                  /\ i_pts_skew' = SkewAfter(i_pts_skew, i_demux_pts, key)
                  /\ i_last_pts' = key
                  /\ nopen' = nopen + 1
             ELSE UNCHANGED <<spus, subpic, i_pts_skew, i_last_pts, nopen>>
          /\ IF put
             THEN /\ fifo' = FifoAfterPut(fifo, NewBlock(id, key, n))
                  /\ arrived' = Append(arrived, id)
             ELSE UNCHANGED <<fifo, arrived>>
          /\ ev' = [parsed |-> TRUE, PTS |-> pts, pend0 |-> (subpic # NULL),
                    last0 |-> i_last_pts, skew0 |-> i_pts_skew,
                    spuOk |-> spuOk, blkOk |-> blkOk,
                    opened |-> (Len(spus') > Len(spus)),
                    enq |-> (Len(arrived') > Len(arrived)),
                    len0 |-> Len(arrived), key |-> key,
                    res |-> IF ~spuOk THEN "nospu"
                            ELSE IF ~blkOk THEN "noblk" ELSE "ok",
                    prior |-> ev.res]
    /\ UNCHANGED <<i_demux_pts, dpc, removed>>
    /\ UNCHANGED updvars
    /\ UNCHANGED othervars
    /\ UNCHANGED hostvars
    /\ UNCHANGED mcvars

(* ---- Decode ---- *)
\* NULL or corrupted block, or a block whose i_pts <= 0: return NULL
DecodeReject ==
    /\ dpc = "idle"
    /\ UNCHANGED vars

\* cache the block's PTS and enter pe_push
DecodeBegin(pts) ==
    /\ p_sys = "alloc"
    /\ dpc = "idle"
    /\ pts > 0
    /\ i_demux_pts' = pts
    /\ dpc' = "push"
    /\ nopen' = 0
    /\ ev' = NoEvent
    /\ UNCHANGED <<subpic, fifo, i_last_pts, i_pts_skew, spus, npkt, nfault,
                   arrived, removed>>
    /\ UNCHANGED updvars
    /\ UNCHANGED othervars
    /\ UNCHANGED hostvars
    /\ UNCHANGED mcvars

\* if (p_sys->subpic != NULL)
HasNewSubpic(s) == s # NULL

\* a mutation of SubpicAfterReturn: the slot is not cleared
SubpicKept(s) == s

\* p_sys->subpic = NULL
SubpicAfterReturn(s) == NULL

\* pe_push has returned: hand the pending subpicture, if any, to the host
DecodeReturn ==
    /\ dpc = "push"
    /\ dpc' = "idle"
    /\ IF HasNewSubpic(subpic)
       THEN /\ subpic' = SubpicAfterReturn(subpic)
            /\ spus' = [spus EXCEPT ![subpic].owner = "host"]
       ELSE UNCHANGED <<subpic, spus>>
    /\ nopen' = 0
    /\ ev' = NoEvent
    /\ UNCHANGED <<fifo, i_last_pts, i_demux_pts, i_pts_skew, npkt, nfault,
                   arrived, removed>>
    /\ UNCHANGED updvars
    /\ UNCHANGED othervars
    /\ UNCHANGED hostvars
    /\ UNCHANGED mcvars

(* ---- SubpictureTextUpdateSmpte2038 ---- *)
AllDue(q, T) == \A i \in 1..Len(q) : q[i].i_pts <= T

\* the host calls the updater of a subpicture Decode has returned
UpdateBegin(f) ==
    /\ upc = "idle"
    /\ f \in 1..Len(spus)
    /\ spus[f].owner = "host"
    /\ cur' = f
    /\ upc' = "size"
    /\ mustDrain' = IF AllDue(fifo, spus[f].i_pts) THEN Len(arrived) ELSE 0
    /\ drainFrom' = Len(arrived)
    /\ UNCHANGED <<fifo, spus, removed, p_block, nfault, dres>>
    /\ UNCHANGED decvars
    /\ UNCHANGED othervars
    /\ UNCHANGED hostvars
    /\ UNCHANGED mcvars

\* the updater returns: its locals are gone
UpdateReturn ==
    /\ upc' = "idle"
    /\ cur' = NULL
    /\ p_block' = NoBlock
    /\ mustDrain' = 0
    /\ drainFrom' = 0
    /\ dres' = NoOutcome

\* a mutation of HasBlocks: the loop is entered on an empty fifo
HasBlocksGeq(n) == n >= 0

\* block_FifoSize(fifo) > 0
HasBlocks(n) == n > 0

\* while (block_FifoSize(fifo) > 0)
UpdateSize ==
    /\ p_sys = "alloc"
    /\ upc = "size"
    /\ IF HasBlocks(Len(fifo))
       THEN /\ upc' = "show"
            /\ UNCHANGED <<cur, p_block, mustDrain, drainFrom, dres>>
       ELSE UpdateReturn
    /\ UNCHANGED <<fifo, spus, removed, nfault>>
    /\ UNCHANGED decvars
    /\ UNCHANGED othervars
    /\ UNCHANGED hostvars
    /\ UNCHANGED mcvars

\* a mutation of NotReady: the bound is off by one
NotReadyOffByOne(pts, target) == pts > target + 1

\* a mutation of NotReady: the loop never bails out on the head's i_pts
NotReadyNever(pts, target) == FALSE

\* a mutation of NotReady: blocks stamped with the target itself are left
NotReadyGeq(pts, target) == pts >= target

\* if (p_block->i_pts > sys->i_pts) break
NotReady(pts, target) == pts > target

\* p_block = block_FifoShow(fifo), then the test against sys->i_pts
UpdateShow ==
    /\ p_sys = "alloc"
    /\ upc = "show"
    /\ Len(fifo) > 0
    /\ IF NotReady(Head(fifo).i_pts, spus[cur].i_pts)
       THEN UpdateReturn
       ELSE /\ upc' = "get"
            /\ p_block' = Head(fifo)
            /\ UNCHANGED <<cur, mustDrain, drainFrom, dres>>
    /\ UNCHANGED <<fifo, spus, removed, nfault>>
    /\ UNCHANGED decvars
    /\ UNCHANGED othervars
    /\ UNCHANGED hostvars
    /\ UNCHANGED mcvars

\* l->line_number of line i of the packet copied into block b: the packets
\* of the model number their lines upwards from the block's id, so that a
\* line's number differs from its index
LineNumber(b, i) == b.id + i

\* the region made of line i of block b: r->i_x = 0, r->i_y = l->line_number
Region(b, i) ==
    [id |-> b.id, line |-> i, i_x |-> 0, i_y |-> LineNumber(b, i)]

\* a mutation of LineRegions: a packet with a failed line yields no region
LineRegionsNone(b, k) ==
    IF k = b.lineCount
    THEN [i \in 1..k |-> Region(b, k + 1 - i)]
    ELSE <<>>

\* a mutation of LineRegions: each new region is linked behind the regions
\* of the packet's earlier lines
LineRegionsAppended(b, k) == [i \in 1..k |-> Region(b, i)]

\* a mutation of LineRegions: the failed line k + 1 is skipped and the lines
\* after it are converted
LineRegionsSkipFailed(b, k) ==
    IF k + 1 >= b.lineCount
    THEN [i \in 1..k |-> Region(b, k + 1 - i)]
    ELSE [i \in 1..(b.lineCount - 1) |->
             Region(b, IF b.lineCount + 1 - i > k + 1
                       THEN b.lineCount + 1 - i ELSE b.lineCount - i)]

\* the regions of block b's first k lines, last line first: each new region
\* is linked in front of subpic->p_region
RECURSIVE LineRegions(_, _)
LineRegions(b, k) ==
    IF k = 0 THEN <<>>
    ELSE <<Region(b, k)>> \o LineRegions(b, k - 1)

\* a mutation of FifoAfterGet: the head is read but not unlinked
FifoGetKeeps(q) == q

\* what block_FifoGet leaves on the fifo
FifoAfterGet(q) == Tail(q)

\* a mutation of DrainedSpu: the regions go to the decoder's pending subpicture
DrainedSpuPending(c, pending) == IF pending # NULL THEN pending ELSE c

\* the subpicture whose p_region the drain links regions into: the one the
\* updater was called for
DrainedSpu(c, pending) == c

\* how the drain's handling of one popped block ends: all its lines became
\* regions; smpte2038_parse_pes_packet gave no packet; a line failed in
\* smpte2038_convert_line_to_words; subpicture_region_New returned NULL
GetOutcomes == {"ok", "noparse", "badline", "nomem"}

\* a mutation of PcAfterParseFail: the updater gives up on a packet that
\* does not parse
PcAfterParseFailReturn == "idle"

\* if (pkt == NULL) continue: back to the loop test
PcAfterParseFail == "size"

\* p_block = block_FifoGet(fifo) returns the head; parse it; one region per
\* line until a line fails: lines 1..k succeed, and unless res = "ok" the
\* packet does not parse (k = 0) or line k + 1 fails and ends the packet
UpdateGet(res, k) ==
    /\ p_sys = "alloc"
    /\ upc = "get"
    /\ Len(fifo) > 0
    /\ k \in 0..Head(fifo).lineCount
    /\ res = "ok" => k = Head(fifo).lineCount
    /\ res = "noparse" => k = 0
    /\ res \in {"badline", "nomem"} => k < Head(fifo).lineCount
    /\ res = "ok" \/ nfault < MaxFaults
    /\ nfault' = IF res = "ok" THEN nfault ELSE nfault + 1
    /\ p_block' = Head(fifo)
    /\ fifo' = FifoAfterGet(fifo)
    /\ removed' = Append(removed, Head(fifo).id)
    /\ spus' = [spus EXCEPT ![DrainedSpu(cur, subpic)].p_region =
                                  LineRegions(Head(fifo), k) \o @]
    /\ dres' = [res |-> res, k |-> k]
    /\ upc' = IF res = "noparse" THEN PcAfterParseFail ELSE "size"
    /\ UNCHANGED <<cur, mustDrain, drainFrom>>
    /\ UNCHANGED decvars
    /\ UNCHANGED othervars
    /\ UNCHANGED hostvars
    /\ UNCHANGED mcvars

Next ==
    \/ DecodeReject
    \/ \E pts \in DemuxVals : DecodeBegin(pts)
    \/ PesCbParseFail
    \/ \E pts \in PTSVals, spuOk \in BOOLEAN, blkOk \in BOOLEAN :
          PesCb(pts, LinesPerPES, spuOk, blkOk)
    \/ DecodeReturn
    \/ \E f \in 1..MaxPackets : UpdateBegin(f)
    \/ UpdateSize
    \/ UpdateShow
    \/ \E res \in {"ok", "noparse"}, k \in 0..LinesPerPES : UpdateGet(res, k)

Spec == Init /\ [][Next]_vars

(* ---- Close and Open ---- *)
\* block_FifoRelease(p_sys->fifo): every block still queued is released
FifoAfterRelease(q) == <<>>

\* Close: release the fifo and the extractor, free p_sys. It runs on the
\* decoder's thread, so not inside Decode; the fields of the freed
\* decoder_sys_t keep whatever they held.
Close ==
    /\ p_sys = "alloc"
    /\ dpc = "idle"
    /\ fifo' = FifoAfterRelease(fifo)
    /\ pe_buf' = <<>>
    /\ p_sys' = "freed"
    /\ UNCHANGED <<subpic, i_last_pts, i_demux_pts, i_pts_skew, spus, dpc,
                   npkt, nfault, nopen, arrived, removed, ev>>
    /\ UNCHANGED updvars
    /\ UNCHANGED <<pushed, emitted, discAt, s35>>
    /\ UNCHANGED hostvars
    /\ UNCHANGED mcvars

\* a mutation of Calloc: the structure is not zeroed
MallocStale ==
    [subpic |-> NULL, i_last_pts |-> i_last_pts, i_demux_pts |-> i_demux_pts,
     i_pts_skew |-> i_pts_skew]

\* p_sys = calloc(1, sizeof(*p_sys))
Calloc ==
    [subpic |-> NULL, i_last_pts |-> 0, i_demux_pts |-> 0, i_pts_skew |-> 0]

\* Open: a zeroed decoder_sys_t, a new extractor, a new fifo
Open ==
    /\ p_sys = "freed"
    /\ p_sys' = "alloc"
    /\ subpic' = Calloc.subpic
    /\ i_last_pts' = Calloc.i_last_pts
    /\ i_demux_pts' = Calloc.i_demux_pts
    /\ i_pts_skew' = Calloc.i_pts_skew
    /\ fifo' = <<>>
    /\ pe_buf' = <<>>
    /\ UNCHANGED <<spus, dpc, npkt, nfault, nopen, arrived, removed, ev>>
    /\ UNCHANGED updvars
    /\ UNCHANGED <<pushed, emitted, discAt, s35>>
    /\ UNCHANGED hostvars
    /\ UNCHANGED mcvars

\* the updater of a subpicture that outlived its decoder: it reads
\* sys->p_dec->p_sys->fifo from freed memory, which is undefined; of what may
\* follow, the model keeps the outcomes in which the call returns sooner or
\* later without touching anything (the others end the run)
UpdateDangling ==
    /\ p_sys = "freed"
    /\ upc # "idle"
    /\ UpdateReturn
    /\ UNCHANGED <<fifo, spus, removed, nfault>>
    /\ UNCHANGED decvars
    /\ UNCHANGED othervars
    /\ UNCHANGED hostvars
    /\ UNCHANGED mcvars

\* the operations of Spec without injected failures, with the decoder
\* closed and opened again at any point between two Decode calls
NextLife ==
    \/ \E pts \in DemuxVals : DecodeBegin(pts)
    \/ \E pts \in PTSVals : PesCb(pts, LinesPerPES, TRUE, TRUE)
    \/ DecodeReturn
    \/ \E f \in 1..MaxPackets : UpdateBegin(f)
    \/ UpdateSize
    \/ UpdateShow
    \/ UpdateGet("ok", LinesPerPES)
    \/ UpdateDangling
    \/ Close
    \/ Open

SpecLife == Init /\ [][NextLife]_vars

(* ---- the SCTE-35 decoder ---- *)
\* the kinds of block handed to Decode: no block, a block flagged
\* BLOCK_FLAG_CORRUPTED, any other block
BlockKinds == {"null", "corrupted", "data"}

\* scte35.c's Decode, as one step: blk is the kind of *pp_block and pts its
\* i_pts; spuOk, parseOk and convOk tell whether decoder_NewSubpictureScte35,
\* scte35_splice_info_section_parse and scte35_create_scte104_message
\* succeed. s35 keeps what the call did: the number of block_Release calls
\* on the block, what became of the subpicture it created ("returned",
\* or "alive" when the call returned without handing it to anyone or
\* destroying it), the subpicture's window and the value returned.
Scte35Decode(blk, pts, spuOk, parseOk, convOk) ==
    /\ s35' =
          IF blk = "null"
          THEN [NoCall35 EXCEPT !.blk = "null"]
          ELSE IF blk = "corrupted"
          THEN [NoCall35 EXCEPT !.blk = blk, !.i_pts = pts, !.released = 1]
          ELSE IF ~spuOk
          THEN [NoCall35 EXCEPT !.blk = blk, !.i_pts = pts, !.released = 1]
          ELSE IF ~parseOk \/ ~convOk
          THEN [blk |-> blk, i_pts |-> pts, released |-> 0, spu |-> "alive",
                i_start |-> pts, i_stop |-> StopAfter(pts), ret |-> "NULL"]
          ELSE [blk |-> blk, i_pts |-> pts, released |-> 1, spu |-> "returned",
                i_start |-> pts, i_stop |-> StopAfter(pts), ret |-> "spu"]
    /\ UNCHANGED <<p_sys, pushed, pe_buf, emitted, discAt>>
    /\ UNCHANGED hostvars
    /\ UNCHANGED mcvars
    /\ UNCHANGED <<fifo, spus, removed, nfault>>
    /\ UNCHANGED decvars
    /\ UNCHANGED updvars

\* the Decode calls of both decoders, each on its own elementary stream,
\* with no failure on the SMPTE 2038 side
NextScte ==
    \/ \E pts \in DemuxVals : DecodeBegin(pts)
    \/ \E pts \in PTSVals : PesCb(pts, LinesPerPES, TRUE, TRUE)
    \/ DecodeReturn
    \/ \E blk \in BlockKinds, pts \in PTSVals,
           spuOk \in BOOLEAN, parseOk \in BOOLEAN, convOk \in BOOLEAN :
          Scte35Decode(blk, pts, spuOk, parseOk, convOk)

SpecScte == Init /\ [][NextScte]_vars

(* ---- the PES extractor ---- *)
\* transport packets over all the Decode calls of a run of SpecPE
MaxTs == 2

\* bytes of one transport packet's payload, standing for the 188 of
\* p_block->i_buffer / 188
PktLen == 4

\* A byte of the stream is a token: "S1" and "S2" stand for a PES start code
\* and header declaring 1 or 2 bytes to follow, "d" for any other byte.
IsHdr(t) == t \in {"S1", "S2"}

HdrLen(t) == IF t = "S1" THEN 1 ELSE 2

\* the transport packet payloads the demux delivers: two PES packets back
\* to back; a PES packet and the head of the next; the tail of a PES packet
\* and a whole one; no start boundary at all
TsPayloads ==
    { <<"S1", "d", "S1", "d">>,
      <<"S2", "d", "d", "S2">>,
      <<"d", "d", "S1", "d">>,
      <<"d", "d", "d", "d">> }

\* the blocks of n transport packets
RECURSIVE TsBlocks(_)
TsBlocks(n) ==
    IF n = 0 THEN {<<>>}
    ELSE {p \o b : p \in TsPayloads, b \in TsBlocks(n - 1)}

\* the bytes of a stream, each with its place in the stream
BytesFrom(stream, base) ==
    [i \in 1..Len(stream) |-> [tok |-> stream[i], at |-> base + i]]

\* bytes that cannot start a PES packet are skipped
RECURSIVE Skip(_)
Skip(buf) ==
    IF buf = <<>> \/ IsHdr(Head(buf).tok) THEN buf ELSE Skip(Tail(buf))

\* the buffer starts with a complete PES packet
HasPes(buf) ==
    /\ buf # <<>>
    /\ IsHdr(buf[1].tok)
    /\ Len(buf) >= 1 + HdrLen(buf[1].tok)

\* the PES packet at the front of the buffer
FrontPes(buf) == SubSeq(buf, 1, 1 + HdrLen(buf[1].tok))

\* a mutation of BufAfterPush: every push starts from an empty buffer
BufRestarted(buf, new) == Skip(new)

\* push accumulates the payload across calls
BufAfterPush(buf, new) == Skip(buf \o new)

\* a mutation of BufAfterEmit: what follows the emitted PES packet is dropped
BufDroppedAfterEmit(buf) == <<>>

\* the emitted PES packet leaves the buffer, what follows it stays
BufAfterEmit(buf) == Skip(SubSeq(buf, 2 + HdrLen(buf[1].tok), Len(buf)))

\* the payloads delivered when a whole stream is pushed in one call
RECURSIVE ExtractAll(_)
ExtractAll(buf) ==
    LET b == Skip(buf)
    IN IF HasPes(b)
       THEN <<FrontPes(b)>> \o ExtractAll(SubSeq(b, Len(FrontPes(b)) + 1, Len(b)))
       ELSE <<>>

\* Decode of a block of whole transport packets, up to the point where
\* pe_push has taken the block's bytes into the extractor's buffer
DecodePush(pts, blk) ==
    /\ p_sys = "alloc"
    /\ dpc = "idle"
    /\ pts > 0
    /\ Len(pushed) + Len(blk) <= MaxTs * PktLen
    /\ Len(ExtractAll(BytesFrom(pushed \o blk, 0))) <= MaxPackets
    /\ i_demux_pts' = pts
    /\ dpc' = "push"
    /\ nopen' = 0
    /\ ev' = NoEvent
    /\ pushed' = pushed \o blk
    /\ pe_buf' = BufAfterPush(pe_buf, BytesFrom(blk, Len(pushed)))
    /\ UNCHANGED <<subpic, fifo, i_last_pts, i_pts_skew, spus, npkt, nfault,
                   arrived, removed>>
    /\ UNCHANGED updvars
    /\ UNCHANGED <<p_sys, emitted, discAt, s35>>
    /\ UNCHANGED hostvars
    /\ UNCHANGED mcvars

\* the extractor finds a complete PES packet at the front of its buffer,
\* the callback for the one before having returned
PeEmit ==
    /\ dpc = "push"
    /\ npkt = Len(emitted)
    /\ HasPes(pe_buf)
    /\ emitted' = Append(emitted, FrontPes(pe_buf))
    /\ pe_buf' = BufAfterEmit(pe_buf)
    /\ UNCHANGED <<fifo, spus, removed, nfault>>
    /\ UNCHANGED decvars
    /\ UNCHANGED updvars
    /\ UNCHANGED <<p_sys, pushed, discAt, s35>>
    /\ UNCHANGED hostvars
    /\ UNCHANGED mcvars

\* the callback for the PES packet just found; its PTS is what
\* smpte2038_parse_pes_packet reads in it
PeCallback ==
    /\ npkt < Len(emitted)
    /\ \E pts \in PTSVals : PesCb(pts, LinesPerPES, TRUE, TRUE)

\* pe_push returns when no complete PES packet is left in the buffer
DecodeReturnPushed ==
    /\ npkt = Len(emitted)
    /\ ~HasPes(pe_buf)
    /\ DecodeReturn

\* Decode of a block flagged BLOCK_FLAG_CORRUPTED, where the stream is
\* discontinuous: the block is released and nothing of it is pushed; the
\* extractor is not touched. discAt is the place in the pushed stream of
\* the last discontinuity.
DecodeCorrupted ==
    /\ p_sys = "alloc"
    /\ dpc = "idle"
    /\ discAt' = Len(pushed)
    /\ UNCHANGED <<fifo, spus, removed, nfault>>
    /\ UNCHANGED decvars
    /\ UNCHANGED updvars
    /\ UNCHANGED <<p_sys, pushed, pe_buf, emitted, s35>>
    /\ UNCHANGED hostvars
    /\ UNCHANGED mcvars

\* Decode calls on blocks of whole transport packets, without failures
NextPE ==
    \/ \E pts \in DemuxVals, n \in 1..MaxTs : \E blk \in TsBlocks(n) :
          DecodePush(pts, blk)
    \/ PeEmit
    \/ PeCallback
    \/ DecodeReturnPushed
    \/ DecodeCorrupted

SpecPE == Init /\ [][NextPE]_vars

(* ---- Decode on any block ---- *)
\* the flags of a block that Decode looks at
BlockFlags == {"none", "corrupted"}

\* a mutation of Rejected: the test of i_pts is missing
RejectedOnlyCorrupted(flags, pts) == flags = "corrupted"

\* p_block->i_flags & BLOCK_FLAG_CORRUPTED, or p_block->i_pts <= 0: the
\* block is released and Decode returns NULL
Rejected(flags, pts) == flags = "corrupted" \/ pts <= 0

\* Decode of a block of whole transport packets with any flags and i_pts:
\* either the block is rejected and Decode returns at once, or its PTS is
\* cached and pe_push takes its bytes. A rejected block's bytes are never
\* read, so the rejected blocks are those of one transport packet.
DecodeBlock(flags, pts, blk) ==
    /\ p_sys = "alloc"
    /\ dpc = "idle"
    /\ IF Rejected(flags, pts)
       THEN /\ Len(blk) = PktLen
            /\ call' = [flags |-> flags, i_pts |-> pts, ret |-> "NULL"]
            /\ UNCHANGED <<i_demux_pts, dpc, nopen, ev, pushed, pe_buf>>
       ELSE /\ Len(pushed) + Len(blk) <= MaxTs * PktLen
            /\ Len(ExtractAll(BytesFrom(pushed \o blk, 0))) <= MaxPackets
            /\ call' = [flags |-> flags, i_pts |-> pts, ret |-> "none"]
            /\ i_demux_pts' = pts
            /\ dpc' = "push"
            /\ nopen' = 0
            /\ ev' = NoEvent
            /\ pushed' = pushed \o blk
            /\ pe_buf' = BufAfterPush(pe_buf, BytesFrom(blk, Len(pushed)))
    /\ UNCHANGED <<subpic, fifo, i_last_pts, i_pts_skew, spus, npkt, nfault,
                   arrived, removed>>
    /\ UNCHANGED updvars
    /\ UNCHANGED <<p_sys, emitted, discAt, s35, fmt>>
    /\ UNCHANGED mcvars

\* Decode calls on blocks of any flags and i_pts
NextBlocks ==
    \/ \E flags \in BlockFlags, pts \in PTSVals, n \in 1..MaxTs :
          \E blk \in TsBlocks(n) : DecodeBlock(flags, pts, blk)
    \/ PeEmit
    \/ PeCallback
    \/ DecodeReturnPushed

SpecBlocks == Init /\ [][NextBlocks]_vars

(* ---- the updater on any destination format ---- *)
\* values of fmt_dst->i_sar_num and fmt_dst->i_sar_den
SarVals == {0, 1}

\* a mutation of SarInvalid: the test of i_sar_den is missing
SarInvalidNumOnly(num, den) == num <= 0

\* if (fmt_dst->i_sar_num <= 0 || fmt_dst->i_sar_den <= 0) return
SarInvalid(num, den) == num <= 0 \/ den <= 0

\* the host calls the updater of a subpicture Decode has returned, with
\* any sample aspect ratio in fmt_dst: the updater returns at once or goes
\* on to the drain
UpdateCall(f, num, den) ==
    /\ upc = "idle"
    /\ f \in 1..Len(spus)
    /\ spus[f].owner = "host"
    /\ fmt' = [i_sar_num |-> num, i_sar_den |-> den, called |-> TRUE]
    /\ IF SarInvalid(num, den)
       THEN UNCHANGED <<upc, cur, mustDrain, drainFrom>>
       ELSE /\ cur' = f
            /\ upc' = "size"
            /\ mustDrain' = IF AllDue(fifo, spus[f].i_pts)
                            THEN Len(arrived) ELSE 0
            /\ drainFrom' = Len(arrived)
    /\ UNCHANGED <<fifo, spus, removed, p_block, nfault, dres>>
    /\ UNCHANGED decvars
    /\ UNCHANGED othervars
    /\ UNCHANGED call
    /\ UNCHANGED mcvars

\* the operations of Spec without injected failures, the updater being
\* called with any sample aspect ratio
NextFmt ==
    \/ \E pts \in DemuxVals : DecodeBegin(pts)
    \/ \E pts \in PTSVals : PesCb(pts, LinesPerPES, TRUE, TRUE)
    \/ DecodeReturn
    \/ \E f \in 1..MaxPackets, num \in SarVals, den \in SarVals :
          UpdateCall(f, num, den)
    \/ UpdateSize
    \/ UpdateShow
    \/ UpdateGet("ok", LinesPerPES)

SpecFmt == Init /\ [][NextFmt]_vars

(* ---- mediacodec.c ---- *)
\* calls of DecodeCommon and DecodeFlush in a run
MaxCalls == 3

\* CSD blocks of the stream: the SPS and the PPS that H264SetCSD keeps
CsdCount == 2

\* the blocks DecodeCommon hands to the codec
CsdBlock(i) == [kind |-> "csd", idx |-> i]
DataBlock == [kind |-> "data", idx |-> 0]
NoNext == [kind |-> "none", idx |-> 0]

\* the running DecodeFlushLocked was called by nobody
NoCaller == [who |-> "none", nb |-> "ok"]

\* the fields of decoder_sys_t, the locals of the two threads and the codec,
\* as one record, so that the statements a thread executes while it holds
\* the lock can be applied one after the other
McState ==
    [b_flush_out |-> b_flush_out, b_output_ready |-> b_output_ready,
     b_input_dequeued |-> b_input_dequeued, b_error |-> b_error,
     i_csd_send |-> i_csd_send, mpc |-> mpc, caller |-> caller,
     pp_block |-> pp_block, next_block |-> next_block,
     b_dequeue_timeout |-> b_dequeue_timeout, opc |-> opc,
     i_index |-> i_index, cancelled |-> cancelled,
     mc_pending |-> mc_pending, mc_queued |-> mc_queued, ncalls |-> ncalls,
     last_in |-> last_in, n_invalidate |-> n_invalidate,
     aborted_by |-> aborted_by]

\* the step ends in state S; smpte2038.c and scte35.c are not involved
McStep(S) ==
    /\ b_flush_out' = S.b_flush_out
    /\ b_output_ready' = S.b_output_ready
    /\ b_input_dequeued' = S.b_input_dequeued
    /\ b_error' = S.b_error
    /\ i_csd_send' = S.i_csd_send
    /\ mpc' = S.mpc
    /\ caller' = S.caller
    /\ pp_block' = S.pp_block
    /\ next_block' = S.next_block
    /\ b_dequeue_timeout' = S.b_dequeue_timeout
    /\ opc' = S.opc
    /\ i_index' = S.i_index
    /\ cancelled' = S.cancelled
    /\ mc_pending' = S.mc_pending
    /\ mc_queued' = S.mc_queued
    /\ ncalls' = S.ncalls
    /\ last_in' = S.last_in
    /\ n_invalidate' = S.n_invalidate
    /\ aborted_by' = S.aborted_by
    /\ UNCHANGED sdivars

\* AbortDecoderLocked: if (!b_error) { b_error = true; vlc_cancel(out_thread) }
AbortDecoderLocked(S, why) ==
    IF S.b_error THEN S
    ELSE [S EXCEPT !.b_error = TRUE, !.cancelled = TRUE, !.aborted_by = why]

\* api->flush: the codec drops what was queued, and a dequeue_out that is
\* waiting returns
ApiFlush(S) ==
    [S EXCEPT !.mc_pending = 0,
              !.opc = IF S.opc = "dq_out" THEN "ret" ELSE S.opc,
              !.i_index = IF S.opc = "dq_out" THEN "error" ELSE S.i_index]

\* DecodeFlushLocked up to its return without waiting ("flushret", the lock
\* still held) or to its vlc_cond_wait ("flushwait", the lock released)
DecodeFlushLocked(S, who, nb, flushOk) ==
    LET b_had_input == S.b_input_dequeued
        S1 == [S EXCEPT !.b_input_dequeued = FALSE, !.b_flush_out = TRUE,
                        !.b_output_ready = FALSE, !.i_csd_send = 0,
                        !.mc_queued = <<>>,
                        !.caller = [who |-> who, nb |-> nb]]
    IN IF b_had_input /\ ~flushOk
       THEN [AbortDecoderLocked(S1, "flush") EXCEPT !.mpc = "flushret"]
       ELSE LET S2 == IF b_had_input THEN ApiFlush(S1) ELSE S1
            IN [S2 EXCEPT !.mpc = IF S2.b_error THEN "flushret"
                                  ELSE "flushwait"]

\* the label end of DecodeCommon: the block is released, the lock is
\* released, DecodeCommon returns and its locals are gone
DecodeEnd(S) ==
    [S EXCEPT !.mpc = "idle", !.caller = NoCaller, !.pp_block = "null",
              !.next_block = NoNext, !.b_dequeue_timeout = FALSE,
              !.last_in = "none", !.n_invalidate = 0]

\* GetNextBlock: the next CSD block, counted as sent when it is fetched, or
\* else *pp_block
GetNextBlock(S) ==
    IF S.i_csd_send < CsdCount
    THEN [S EXCEPT !.next_block = CsdBlock(S.i_csd_send),
                   !.i_csd_send = S.i_csd_send + 1]
    ELSE [S EXCEPT !.next_block =
                      IF S.pp_block = "data" THEN DataBlock ELSE NoNext]

\* while ((p_block = GetNextBlock(p_sys, *pp_block))): with a block, the
\* lock is released and dequeue_in is called; without, DecodeCommon ends
QueueLoop(S) ==
    LET S1 == GetNextBlock(S)
    IN IF S1.next_block = NoNext THEN DecodeEnd(S1)
       ELSE [S1 EXCEPT !.mpc = "dq_in"]

\* DecodeCommon from pf_on_new_block on; nb is what pf_on_new_block makes
\* of the block: "ok", "flush" (NEWBLOCK_FLAG_FLUSH), "drop" (it returns
\* 0) or "error" (it returns -1)
OnNewBlock(S, nb, flushOk) ==
    IF nb = "ok" THEN QueueLoop(S)
    ELSE IF nb = "flush" THEN DecodeFlushLocked(S, "newblock", "ok", flushOk)
    ELSE IF nb = "drop" THEN DecodeEnd(S)
    ELSE DecodeEnd(AbortDecoderLocked(S, "on_new_block"))

\* the flags of a block DecodeCommon looks at
McBlockFlags == {"none", "discontinuity", "corrupted"}

\* what pf_on_new_block makes of a block
NewBlockResults == {"ok", "flush", "drop", "error"}

\* DecodeCommon from its start to the first point where it releases the lock
DecodeCommon(flag, nb, flushOk) ==
    /\ mpc = "idle"
    /\ ncalls < MaxCalls
    /\ LET S == [McState EXCEPT !.ncalls = ncalls + 1, !.pp_block = "data"]
       IN McStep(IF b_error THEN DecodeEnd(S)
                 ELSE IF flag # "none"
                 THEN DecodeFlushLocked(S, flag, nb, flushOk)
                 ELSE OnNewBlock(S, nb, flushOk))

\* DecodeFlush, to the vlc_cond_wait of DecodeFlushLocked
DecodeFlush(flushOk) ==
    /\ mpc = "idle"
    /\ ncalls < MaxCalls
    /\ McStep(DecodeFlushLocked([McState EXCEPT !.ncalls = ncalls + 1],
                                "DecodeFlush", "ok", flushOk))

\* CloseDecoder, to the vlc_cond_wait of DecodeFlushLocked
CloseDecoder(flushOk) ==
    /\ mpc = "idle"
    /\ McStep(DecodeFlushLocked(McState, "CloseDecoder", "ok", flushOk))

\* a mutation of FlushMustWait: DecodeFlushLocked does not wait
FlushNeverWaits(error, flush_out) == FALSE

\* while (!p_sys->b_error && p_sys->b_flush_out) vlc_cond_wait(...)
FlushMustWait(error, flush_out) == ~error /\ flush_out

\* DecodeFlushLocked returns, and its caller goes on to the next point where
\* it releases the lock
FlushReturn(flushOk) ==
    /\ \/ mpc = "flushret"
       \/ mpc = "flushwait" /\ ~FlushMustWait(b_error, b_flush_out)
    /\ LET S == McState
       IN McStep(
            IF caller.who = "DecodeFlush"
            THEN [S EXCEPT !.mpc = "idle", !.caller = NoCaller]
            ELSE IF caller.who = "CloseDecoder"
            THEN [AbortDecoderLocked(S, "close") EXCEPT
                     !.mpc = "join", !.caller = NoCaller]
            ELSE IF S.b_error \/ caller.who = "corrupted"
            THEN DecodeEnd(S)
            ELSE IF caller.who = "discontinuity"
            THEN OnNewBlock([S EXCEPT !.caller = NoCaller], caller.nb, flushOk)
            ELSE QueueLoop([S EXCEPT !.caller = NoCaller]))

\* a mutation of TimeoutAfterQueue: a queued buffer leaves the flag as it is
TimeoutKept(S) == S.b_dequeue_timeout

\* b_dequeue_timeout = false, after a successful queue_in
TimeoutAfterQueue(S) == FALSE

\* what dequeue_in returns: a buffer index, MC_API_INFO_TRYAGAIN, an error
DequeueInResults == {"index", "tryagain", "error"}

\* dequeue_in has returned res: DecodeCommon takes the lock and goes on to
\* the next point where it releases it; queueOk tells whether queue_in
\* succeeds
DequeueIn(res, queueOk) ==
    /\ mpc = "dq_in"
    /\ LET S == McState
           b_config == next_block.kind = "csd"
           Sq == [S EXCEPT
                    !.b_input_dequeued = TRUE,
                    !.mc_queued = Append(S.mc_queued,
                                         [blk |-> next_block, config |-> b_config]),
                    !.b_output_ready = IF b_config THEN S.b_output_ready ELSE TRUE,
                    !.mc_pending = IF b_config THEN S.mc_pending
                                   ELSE S.mc_pending + 1,
                    !.pp_block = IF b_config THEN S.pp_block ELSE "null",
                    !.b_dequeue_timeout = TimeoutAfterQueue(S),
                    !.last_in = "queued"]
       IN McStep(
            IF b_error THEN DecodeEnd(S)
            ELSE IF res = "index"
            THEN IF queueOk THEN QueueLoop(Sq)
                 ELSE DecodeEnd(AbortDecoderLocked(
                         [S EXCEPT !.b_input_dequeued = TRUE], "queue_in"))
            ELSE IF res = "tryagain"
            THEN IF ~b_dequeue_timeout
                 THEN QueueLoop([S EXCEPT !.n_invalidate = S.n_invalidate + 1,
                                          !.b_dequeue_timeout = TRUE,
                                          !.last_in = "tryagain"])
                 ELSE DecodeEnd(AbortDecoderLocked(S, "timeout"))
            ELSE DecodeEnd(AbortDecoderLocked(S, "dequeue_in")))

\* vlc_join(p_sys->out_thread) returns once the output thread has ended
Join ==
    /\ mpc = "join"
    /\ opc = "stopped"
    /\ McStep([McState EXCEPT !.mpc = "closed"])

\* the decoder thread is not inside a stretch of code that holds the lock
LockFree == mpc # "flushret"

\* the output thread leaves its wait loop for dequeue_out
OutMayDequeue(ready) == ready

\* Acknowledge flushed state: b_flush_out = false
FlushOutAfterAck(flush_out) == FALSE

\* the head of OutThread's loop: acknowledge a flush and go round again, or
\* release the lock to call dequeue_out
OutWake ==
    /\ opc = "wait"
    /\ LockFree
    /\ b_flush_out \/ OutMayDequeue(b_output_ready)
    /\ McStep(IF b_flush_out
              THEN [McState EXCEPT !.b_flush_out = FlushOutAfterAck(b_flush_out)]
              ELSE [McState EXCEPT !.opc = "unlocked"])

\* the output thread is cancelled in the vlc_cond_wait of its loop
OutCancel ==
    /\ opc = "wait"
    /\ LockFree
    /\ cancelled
    /\ McStep([McState EXCEPT !.opc = "stopped"])

\* the output thread enters dequeue_out and waits
OutDequeueEnter ==
    /\ opc = "unlocked"
    /\ McStep([McState EXCEPT !.opc = "dq_out"])

\* dequeue_out returns an output buffer of the codec
OutDequeueReturn ==
    /\ opc = "dq_out"
    /\ mc_pending > 0
    /\ McStep([McState EXCEPT !.opc = "ret", !.i_index = "buffer",
                              !.mc_pending = mc_pending - 1])

\* OutThread after dequeue_out: with the lock again, it drops what it got if
\* a flush is pending, or else processes the output; when get_out or
\* pf_process_output fails (ok is false) it leaves the loop and sets b_error
OutProcess(ok) ==
    /\ opc = "ret"
    /\ LockFree
    /\ McStep(IF b_flush_out \/ (i_index = "buffer" /\ ok)
              THEN [McState EXCEPT !.opc = "wait", !.i_index = "none"]
              ELSE [McState EXCEPT
                      !.opc = "stopped", !.i_index = "none", !.b_error = TRUE,
                      !.aborted_by = IF aborted_by = "none" THEN "out"
                                     ELSE aborted_by])

NextMc ==
    \/ \E flag \in McBlockFlags, nb \in NewBlockResults, flushOk \in BOOLEAN :
          DecodeCommon(flag, nb, flushOk)
    \/ \E flushOk \in BOOLEAN : DecodeFlush(flushOk)
    \/ \E flushOk \in BOOLEAN : CloseDecoder(flushOk)
    \/ \E flushOk \in BOOLEAN : FlushReturn(flushOk)
    \/ \E res \in DequeueInResults, queueOk \in BOOLEAN : DequeueIn(res, queueOk)
    \/ Join
    \/ OutWake
    \/ OutCancel
    \/ OutDequeueEnter
    \/ OutDequeueReturn
    \/ \E ok \in BOOLEAN : OutProcess(ok)

SpecMc == Init /\ [][NextMc]_vars

\* Both threads run when they can: a thread whose wait is over goes on, the
\* output thread enters dequeue_out once it has released the lock, and
\* dequeue_out returns when the codec has output. The host is not bound to
\* call the decoder, and dequeue_in need not return.
McFairness ==
    /\ WF_vars(\E flushOk \in BOOLEAN : FlushReturn(flushOk))
    /\ WF_vars(Join)
    /\ WF_vars(OutWake)
    /\ WF_vars(OutCancel)
    /\ WF_vars(OutDequeueEnter)
    /\ WF_vars(OutDequeueReturn)
    /\ WF_vars(\E ok \in BOOLEAN : OutProcess(ok))

SpecMcLive == SpecMc /\ McFairness

(* ---- packets of several lines ---- *)
\* In Spec every packet has one line, so a line that fails leaves the state
\* a packet that does not parse leaves. SpecLines delivers packets of
\* 1..MaxLines lines, all with the same declared PTS and without ingestion
\* failures, and lets each line of a popped packet fail in either way.
NextLines ==
    \/ \E pts \in DemuxVals : DecodeBegin(pts)
    \/ \E n \in 1..MaxLines : PesCb(MaxPTS, n, TRUE, TRUE)
    \/ DecodeReturn
    \/ \E f \in 1..MaxPackets : UpdateBegin(f)
    \/ UpdateSize
    \/ UpdateShow
    \/ \E res \in GetOutcomes, k \in 0..MaxLines : UpdateGet(res, k)

SpecLines == Init /\ [][NextLines]_vars

(***************************************************************************)
(* Properties                                                              *)
(***************************************************************************)
FifoIds(q) == [i \in 1..Len(q) |-> q[i].id]

\* the step only appended to the fifo (or left it alone)
OnlyAppended ==
    /\ Len(fifo') >= Len(fifo)
    /\ SubSeq(fifo', 1, Len(fifo)) = fifo

\* C1: frame gating. Whenever a step takes an entry off the queue, the step
\* is the pop of a running drain, the entry is the front of the queue, and
\* its key is <= the target_pts of the frame being displayed; an entry whose
\* key is strictly greater than that target is never removed.
C1_FrameGating ==
    [][~OnlyAppended =>
          /\ upc = "get"
          /\ cur # NULL
          /\ fifo' = Tail(fifo)
          /\ removed' = Append(removed, Head(fifo).id)
          /\ Head(fifo).i_pts <= spus[cur].i_pts]_vars

\* a drain that has popped a block now stands before a head that is not due
C1_Witness ==
    /\ upc = "show"
    /\ p_block # NoBlock
    /\ Len(fifo) > 0
    /\ Head(fifo).i_pts > spus[cur].i_pts

\* C2: drains dequeue every entry exactly once, in arrival order, none
\* skipped or duplicated (the blocks taken off followed by the blocks still
\* queued are always exactly the blocks that arrived, in order), and a drain
\* whose target_pts is >= every key queued when it began returns only after
\* every block that had arrived by then has been taken off.
C2_DrainAllInOrder ==
    /\ [](arrived = removed \o FifoIds(fifo))
    /\ [][(upc # "idle" /\ upc' = "idle") => Len(removed) >= mustDrain]_vars

\* a drain that began with two or more blocks, all due, has emptied the
\* queue after an earlier drain had stopped at a later key
C2_Witness ==
    /\ upc = "size"
    /\ fifo = <<>>
    /\ mustDrain >= 2
    /\ Len(removed) = mustDrain
    /\ \E i \in 1..Len(spus) : spus[i].owner = "host" /\ spus[i].i_pts < spus[cur].i_pts

\* the last pes_cb call put one block on the fifo, stamped with its key
PutOne ==
    /\ Len(arrived) = ev.len0 + 1
    /\ \/ Len(fifo) > 0 /\ fifo[Len(fifo)].i_pts = ev.key
       \/ Len(removed) = Len(arrived)

\* the last pes_cb call put nothing on the fifo
PutNone == Len(arrived) = ev.len0

\* no block id arrived twice
ArrivedOnce == \A i, j \in 1..Len(arrived) : i # j => arrived[i] # arrived[j]

\* C3 as stated: every PES packet that parses at ingestion is enqueued,
\* exactly once, whether or not a new frame was opened for it.
C3_AlwaysEnqueued ==
    /\ ev.parsed => (ev.enq /\ PutOne)
    /\ ArrivedOnce

\* C3 as amended: every PES packet that parses at ingestion is enqueued
\* exactly once, whether or not a new frame was opened for it, unless the
\* allocation of the new frame object or of the queue block fails for it, and
\* then it is not enqueued at all.
C3_EnqueuedUnlessAllocFails ==
    /\ (ev.parsed /\ ev.spuOk /\ ev.blkOk) => (ev.enq /\ PutOne)
    /\ (ev.parsed /\ ~(ev.spuOk /\ ev.blkOk)) => (~ev.enq /\ PutNone)
    /\ ArrivedOnce

\* a packet was enqueued although a frame was pending and none was opened
C3_Witness ==
    /\ ev.parsed
    /\ ev.enq
    /\ ~ev.opened
    /\ PutOne
    /\ Len(arrived) >= 2

\* C4: the key of every enqueued packet, the packet on which the skew is
\* first computed included, is its declared PTS plus the value pts_skew holds
\* when the packet is enqueued (stated for runs without an injected failure).
C4_KeyIsPtsPlusSkew ==
    (ev.enq /\ nfault = 0) => ev.key = ev.PTS + i_pts_skew

\* C5: skew computed once. Once a frame has been opened, and so the skew
\* computed, no later packet changes pts_skew: every later packet leaves it
\* as it found it and is keyed with it (stated for runs without an injected
\* failure).
C5_SkewComputedOnce ==
    (ev.parsed /\ nfault = 0 /\ Len(spus) > (IF ev.opened THEN 1 ELSE 0)) =>
        /\ i_pts_skew = ev.skew0
        /\ ev.key = ev.PTS + ev.skew0

\* C6 as stated: a packet with a new PTS seen while a frame is pending is
\* enqueued, opens no frame and leaves last_seen_pts alone.
C6_PendingFrameGate ==
    (ev.parsed /\ ev.pend0 /\ ev.key # ev.last0) =>
        /\ ev.enq
        /\ ~ev.opened
        /\ subpic # NULL
        /\ i_last_pts = ev.last0

\* C6 as amended: a packet with a new PTS seen while a frame is pending opens
\* no frame and leaves last_seen_pts and the pending frame alone, and it is
\* enqueued unless the allocation of its queue block fails.
C6_PendingFrameGateUnlessAllocFails ==
    (ev.parsed /\ ev.pend0 /\ ev.key # ev.last0) =>
        /\ ev.enq <=> ev.blkOk
        /\ ~ev.opened
        /\ subpic # NULL
        /\ spus[subpic].owner = "dec"
        /\ spus[subpic].i_pts = ev.last0
        /\ i_last_pts = ev.last0

\* a packet with a new PTS arrived while a frame was pending, and was queued
C6_Witness ==
    /\ ev.parsed
    /\ ev.pend0
    /\ ev.key # ev.last0
    /\ ev.enq
    /\ nopen = 1

\* C7: a frame opened during a Decode call is pending only inside that call,
\* empty, and is the frame the call hands to the host; the regions of a frame
\* change only in the pop step of a drain run for that frame, after the
\* hand-off.
C7_EmptyPlaceholder ==
    /\ [](\A f \in 1..Len(spus) :
             spus[f].owner = "dec" =>
                 /\ dpc = "push"
                 /\ subpic = f
                 /\ spus[f].p_region = <<>>)
    /\ [][\A f \in 1..Len(spus) :
             /\ (spus[f].owner = "dec" /\ spus'[f].owner = "host") =>
                    (dpc = "push" /\ dpc' = "idle" /\ spus'[f].p_region = <<>>)
             /\ spus'[f].p_region # spus[f].p_region =>
                    (upc = "get" /\ cur = f /\ spus[f].owner = "host")]_vars

\* a frame handed to the host has been given a region by its drain
C7_Witness ==
    \E f \in 1..Len(spus) : spus[f].owner = "host" /\ spus[f].p_region # <<>>

\* C8: between Decode calls no frame is pending, and a Decode call opens at
\* most one frame.
C8_NoPendingAfterDecode ==
    /\ dpc = "idle" => subpic = NULL
    /\ nopen <= 1
    /\ Cardinality({f \in 1..Len(spus) : spus[f].owner = "dec"}) <= 1
    /\ subpic # NULL => nopen = 1

\* a Decode call that got two packets has returned its one frame
C8_Witness ==
    /\ dpc = "idle"
    /\ Len(spus) = 1
    /\ spus[1].owner = "host"
    /\ Len(arrived) = 2

\* C9 as stated: no two frames carry the same target_pts (stated for runs
\* without an injected failure).
C9_NoTwoFramesSameTarget ==
    nfault = 0 =>
        \A i, j \in 1..Len(spus) : i # j => spus[i].i_pts # spus[j].i_pts

\* C9 as amended: a frame is opened only for a key that differs from
\* last_seen_pts, the target_pts of the frame opened last: no two frames
\* opened one after the other carry the same target_pts (a target_pts can
\* recur after a different one).
C9_ConsecutiveFramesDiffer ==
    /\ \A i \in 1..Len(spus) : i > 1 => spus[i].i_pts # spus[i - 1].i_pts
    /\ spus # <<>> => i_last_pts = spus[Len(spus)].i_pts

\* a target_pts has come back after a different one
C9_Witness ==
    /\ Len(spus) >= 3
    /\ spus[1].i_pts = spus[3].i_pts
    /\ spus[2].i_pts # spus[1].i_pts

\* C10: the first PES packet after decoder start, when it parses and no
\* allocation fails, opens a frame whatever its PTS is, and the frame's
\* target_pts is the key the packet is enqueued under.
C10_FirstPacketOpensFrame ==
    (npkt = 1 /\ ev.parsed /\ nfault = 0) =>
        /\ ev.opened
        /\ ev.enq
        /\ spus # <<>>
        /\ spus[Len(spus)].i_pts = ev.key

\* the queued blocks that were put on the fifo before the running drain began
\* and whose key is <= the target of the frame being drained
LeftDue ==
    {i \in 1..Len(fifo) :
        fifo[i].id <= drainFrom /\ fifo[i].i_pts <= spus[cur].i_pts}

\* C11: when a drain for a frame with target_pts T returns, no packet that
\* was enqueued before the drain began and whose key is <= T remains in the
\* queue (no allocation or parse failure involved).
C11_AllDueDequeued ==
    [][(nfault = 0 /\ upc # "idle" /\ upc' = "idle") => LeftDue = {}]_vars

\* the step linked new regions in front of frame f's list, all of them made
\* from the block at the head of the fifo, which the step took off
RegionsFromHead(f) ==
    /\ Len(fifo) > 0
    /\ fifo' = Tail(fifo)
    /\ Len(spus'[f].p_region) > Len(spus[f].p_region)
    /\ LET n == Len(spus'[f].p_region) - Len(spus[f].p_region)
       IN /\ SubSeq(spus'[f].p_region, n + 1, Len(spus'[f].p_region))
                = spus[f].p_region
          /\ \A i \in 1..n : spus'[f].p_region[i].id = Head(fifo).id

C13_PopsWhatItPeeked ==
    /\ upc = "get" => (Len(fifo) > 0 /\ Head(fifo) = p_block)
    /\ Len(removed) <= Len(arrived)
    /\ removed = SubSeq(arrived, 1, Len(removed))
    /\ \A i, j \in 1..Len(removed) : i # j => removed[i] # removed[j]

\* the drain stands between its peek and its pop while pes_cb, inside
\* pe_push, has put a block on the fifo since the drain began
C13_Witness ==
    /\ upc = "get"
    /\ dpc = "push"
    /\ ev.enq
    /\ Len(arrived) > drainFrom
    /\ Len(fifo) >= 2
    /\ fifo[Len(fifo)].id > drainFrom

\* C14: a drain never blocks. block_FifoShow and block_FifoGet, which wait on
\* an empty fifo, are only ever reached with a block queued, even while
\* pes_cb is enqueuing; and the drain's next step from an empty queue, or
\* from a head whose key exceeds target_pts, is its return.
C14_DrainNeverBlocks ==
    /\ [](upc \in {"show", "get"} => Len(fifo) > 0)
    /\ [][(/\ upc' # upc
           /\ \/ upc = "size" /\ fifo = <<>>
              \/ upc = "show" /\ Head(fifo).i_pts > spus[cur].i_pts)
          => upc' = "idle"]_vars

\* a drain that has popped a block finds the queue empty while pe_push runs
C14_Witness ==
    /\ upc = "size"
    /\ fifo = <<>>
    /\ p_block # NoBlock
    /\ dpc = "push"
    /\ npkt < MaxPackets

HasRegion(f, id) == \E i \in 1..Len(spus[f].p_region) : spus[f].p_region[i].id = id

\* C16: a queued PES packet that fails to parse at drain time is taken off
\* the queue and adds no region to any frame, and the drain goes on: it is
\* back at the loop test, its next step peeks the next queued entry if there
\* is one, and a packet popped right after the failed one is made into
\* regions of the displayed frame as usual.
C16_ParseFailureSkipsPacket ==
    /\ []((dres.res = "noparse" /\ upc = "size") =>
            /\ cur # NULL
            /\ removed # <<>>
            /\ removed[Len(removed)] = p_block.id
            /\ \A i \in 1..Len(fifo) : fifo[i].id # p_block.id
            /\ \A f \in 1..Len(spus) : ~HasRegion(f, p_block.id))
    /\ [](dres.res = "noparse" => upc \in {"size", "show", "get"})
    /\ [][(dres.res = "noparse" /\ upc = "size" /\ upc' # upc) =>
              upc' = (IF fifo = <<>> THEN "idle" ELSE "show")]_vars
    /\ [][(dres.res = "noparse" /\ upc = "get" /\ dres'.res = "ok") =>
              /\ ~HasRegion(cur, Head(fifo).id)
              /\ \E i \in 1..Len(spus'[cur].p_region) :
                    spus'[cur].p_region[i].id = Head(fifo).id]_vars

\* after a packet that did not parse, the drain is about to peek its
\* sibling, queued with the same key
C16_Witness ==
    /\ upc = "show"
    /\ dres.res = "noparse"
    /\ removed # <<>>
    /\ removed[Len(removed)] = p_block.id
    /\ Len(fifo) > 0
    /\ Head(fifo).i_pts = p_block.i_pts
    /\ Head(fifo).i_pts <= spus[cur].i_pts

\* the lines of block b that are regions of subpicture f
LinesIn(f, b) ==
    {spus[f].p_region[i].line :
        i \in {j \in 1..Len(spus[f].p_region) : spus[f].p_region[j].id = b.id}}

\* the regions at the front of subpicture f's list are those of lines
\* 1..k of block b, the last of them first
FrontIsLines(f, b, k) ==
    /\ Len(spus[f].p_region) >= k
    /\ \A i \in 1..k : spus[f].p_region[i] = Region(b, k + 1 - i)

\* the drain is still running, at the loop test or past it
DrainGoesOn == cur # NULL /\ upc \in {"size", "show", "get"}

\* C17: when the first k lines of a popped PES packet expand correctly and
\* the next line fails in smpte2038_convert_line_to_words, the displayed
\* frame receives exactly the regions of lines 1..k of that packet and of no
\* later line, and the drain goes on with the loop test: its next step
\* peeks the next queued packet if there is one.
C17_CorruptedLineKeepsFirstLines ==
    /\ []((dres.res = "badline" /\ upc = "size") =>
            /\ dres.k < p_block.lineCount
            /\ LinesIn(cur, p_block) = 1..dres.k
            /\ FrontIsLines(cur, p_block, dres.k)
            /\ \A f \in 1..Len(spus) : f # cur => LinesIn(f, p_block) = {})
    /\ [](dres.res = "badline" => DrainGoesOn)
    /\ [][(dres.res = "badline" /\ upc = "size" /\ upc' # upc) =>
              upc' = (IF fifo = <<>> THEN "idle" ELSE "show")]_vars

\* a packet of two lines lost its second line to a conversion failure, kept
\* the region of its first line, and the drain has gone on to a later packet
C17_Witness ==
    /\ upc = "show"
    /\ dres.res = "badline"
    /\ dres.k >= 1
    /\ p_block.lineCount > dres.k
    /\ LinesIn(cur, p_block) = 1..dres.k
    /\ Len(fifo) > 0

\* C18 (as stated): when the allocation for line k + 1 of a popped packet
\* fails, only that line is lost: every other line of the packet, before and
\* after it, is a region of the displayed frame.
C18_AllocFailureLosesOneLine ==
    (dres.res = "nomem" /\ upc = "size") =>
        LinesIn(cur, p_block) = (1..p_block.lineCount) \ {dres.k + 1}

\* C18 (amended): when the allocation for line k + 1 of a popped packet
\* fails, the lines before it are regions of the displayed frame, and the
\* failed line and every line after it in that packet are not converted;
\* the drain goes on with the loop test and the next queued packet.
C18_AllocFailureEndsPacket ==
    /\ []((dres.res = "nomem" /\ upc = "size") =>
            /\ dres.k < p_block.lineCount
            /\ LinesIn(cur, p_block) = 1..dres.k
            /\ FrontIsLines(cur, p_block, dres.k)
            /\ \A f \in 1..Len(spus) : f # cur => LinesIn(f, p_block) = {})
    /\ [](dres.res = "nomem" => DrainGoesOn)
    /\ [][(dres.res = "nomem" /\ upc = "size" /\ upc' # upc) =>
              upc' = (IF fifo = <<>> THEN "idle" ELSE "show")]_vars

\* the allocation for the first line of a packet of two lines failed: the
\* second line was not converted either
C18_Witness ==
    /\ upc = "size"
    /\ dres.res = "nomem"
    /\ dres.k + 1 < p_block.lineCount
    /\ LinesIn(cur, p_block) = 1..dres.k
    /\ p_block.lineCount \notin LinesIn(cur, p_block)

\* C19 (as stated): once decoder_NewSubpictureSmpte2038 has failed for a
\* PES packet, the push of that input block is abandoned: as long as the
\* failed call is the last one of the running Decode call, no step enqueues
\* a packet or opens a frame.
C19_PushAbandoned ==
    [][(dpc = "push" /\ ev.res = "nospu") =>
          (Len(arrived') = Len(arrived) /\ Len(spus') = Len(spus))]_vars

\* C19 (amended): when decoder_NewSubpictureSmpte2038 fails for a PES
\* packet, that packet alone is dropped: it is not enqueued, opens no frame
\* and leaves the pending slot empty and last_seen_pts and pts_skew as they
\* were, and pe_push goes on; the next PES packet of the same Decode call
\* whose allocations succeed is enqueued, and opens a frame if its key
\* differs from last_seen_pts.
C19_OnlyThatPacketDropped ==
    /\ [](ev.res = "nospu" =>
            /\ dpc = "push"
            /\ ~ev.enq
            /\ ~ev.opened
            /\ ~ev.pend0
            /\ subpic = NULL
            /\ i_last_pts = ev.last0
            /\ i_pts_skew = ev.skew0
            /\ Len(arrived) = ev.len0)
    /\ [][(ev.res = "nospu" /\ ev'.prior = "nospu" /\ ev'.res = "ok") =>
              /\ Len(arrived') = Len(arrived) + 1
              /\ fifo' = Append(fifo, [id |-> Len(arrived'), i_pts |-> ev'.key,
                                       lineCount |-> LinesPerPES])
              /\ ev'.opened = (ev'.key # i_last_pts)
              /\ ev'.opened => (subpic' # NULL /\ spus'[subpic'].i_pts = ev'.key)]_vars

\* in one Decode call, the frame allocation failed for a PES packet and the
\* next PES packet was enqueued and opened a frame
C19_Witness ==
    /\ dpc = "push"
    /\ ev.prior = "nospu"
    /\ ev.res = "ok"
    /\ ev.enq
    /\ ev.opened
    /\ subpic # NULL

\* C20: a PES payload that fails to parse in pes_cb is skipped locally. The
\* call changes neither the queue nor pts_skew, last_seen_pts, the pending
\* slot or any frame, and pe_push goes on; the next PES packet of the same
\* block is enqueued and opens a frame by the usual rule, and the Decode
\* call returns as usual, handing over the pending frame if there is one.
C20_ParseFailureSkippedLocally ==
    /\ [](ev.res = "noparse" =>
            /\ dpc = "push"
            /\ ~ev.enq
            /\ ~ev.opened
            /\ (subpic # NULL) = ev.pend0
            /\ i_last_pts = ev.last0
            /\ i_pts_skew = ev.skew0
            /\ Len(arrived) = ev.len0)
    /\ [][(npkt' # npkt /\ ev'.res = "noparse") =>
              UNCHANGED <<fifo, i_pts_skew, i_last_pts, i_demux_pts, subpic,
                          spus, dpc, arrived>>]_vars
    /\ [][(ev.res = "noparse" /\ ev'.prior = "noparse" /\ ev'.res = "ok") =>
              /\ fifo' = Append(fifo, [id |-> Len(arrived) + 1,
                                       i_pts |-> ev'.key,
                                       lineCount |-> LinesPerPES])
              /\ ev'.opened = (ev'.key # i_last_pts /\ subpic = NULL)]_vars
    /\ [][(ev.res = "noparse" /\ dpc' = "idle") =>
              /\ subpic' = NULL
              /\ subpic # NULL => spus'[subpic].owner = "host"]_vars

\* in one Decode call a PES payload failed to parse and the next PES packet
\* was enqueued and opened a frame
C20_Witness ==
    /\ dpc = "push"
    /\ ev.prior = "noparse"
    /\ ev.res = "ok"
    /\ ev.enq
    /\ ev.opened

(* ---- C21 ---- *)
\* the state of a decoder that has just been opened
FreshlyOpened ==
    /\ fifo = <<>>
    /\ i_pts_skew = 0
    /\ i_last_pts = 0
    /\ subpic = NULL

\* C21: immediately after Open the queue is empty, pts_skew and last_seen_pts
\* are zero and no frame is pending, whatever the closed decoder had left in
\* them; Close leaves no entry in the queue.
C21_Lifecycle ==
    [][/\ (p_sys = "freed" /\ p_sys' = "alloc") => FreshlyOpened'
       /\ (p_sys = "alloc" /\ p_sys' = "freed") => fifo' = <<>>]_vars

\* a decoder reopened with everything zero, after a Close that released a
\* queued entry of a decoder which had opened a frame at a nonzero target
C21_Witness ==
    /\ p_sys = "alloc"
    /\ FreshlyOpened
    /\ dpc = "idle"
    /\ Len(arrived) > Len(removed)
    /\ \E f \in 1..Len(spus) : spus[f].i_pts # 0


(* ---- C27 ---- *)
\* C27: i_pts_skew changes only in a PES callback that opens a new frame
\* while i_pts_skew is zero, or when a decoder is opened; so once it is
\* nonzero, no callback, Decode call or drain changes it while the decoder
\* stays open.
C27_SkewSetOnlyFromZero ==
    [][i_pts_skew' # i_pts_skew =>
          \/ /\ dpc = "push"
             /\ p_sys = "alloc" /\ p_sys' = "alloc"
             /\ i_pts_skew = 0
             /\ Len(spus') = Len(spus) + 1
          \/ p_sys = "freed" /\ p_sys' = "alloc"]_vars

\* a callback found a nonzero skew, opened a new frame and left the skew as
\* it was, and a drain has removed an entry since the decoder ran
C27_Witness ==
    /\ p_sys = "alloc"
    /\ ev.opened
    /\ ev.skew0 # 0
    /\ i_pts_skew = ev.skew0
    /\ removed # <<>>


(* ---- C28 ---- *)
\* C28: no display callback of a handed-off frame is running (and so reading
\* the decoder's queue through sys->p_dec->p_sys) while the decoder instance
\* is closed.
C28_NoDrainOnClosedDecoder ==
    ~(p_sys = "freed" /\ upc # "idle")


(* ---- C24 ---- *)
\* the place of block id in the order of dequeueing
DequeuePos(id) == CHOOSE n \in 1..Len(removed) : removed[n] = id

\* region r was produced before region q: its packet was dequeued earlier,
\* or it is an earlier line of the same packet
ProducedBefore(r, q) ==
    \/ DequeuePos(r.id) < DequeuePos(q.id)
    \/ r.id = q.id /\ r.line < q.line

\* every region of every frame is at x = 0, y = the line number of its line
RegionsPositioned ==
    \A f \in 1..Len(spus) : \A i \in 1..Len(spus[f].p_region) :
        LET r == spus[f].p_region[i]
        IN r.i_x = 0 /\ r.i_y = LineNumber([id |-> r.id], r.line)

\* C24 (as stated): a frame's region list holds the lines in the order they
\* were produced (packet dequeue order, then line order within a packet),
\* each region at x = 0 and y = its line number (no failure involved).
C24_RegionsInProductionOrder ==
    nfault = 0 =>
        /\ RegionsPositioned
        /\ \A f \in 1..Len(spus) : \A i, j \in 1..Len(spus[f].p_region) :
              i < j => ProducedBefore(spus[f].p_region[i], spus[f].p_region[j])

\* C24 (amended): each region is linked in front of the frame's list, so the
\* list holds the lines in the reverse of the order they were produced: the
\* last line of the last dequeued packet first; each region is at x = 0 and
\* y = its line number.
C24_RegionsInReverseOrder ==
    /\ RegionsPositioned
    /\ \A f \in 1..Len(spus) : \A i, j \in 1..Len(spus[f].p_region) :
          i < j => ProducedBefore(spus[f].p_region[j], spus[f].p_region[i])

\* a frame holding the regions of two packets, one of them of two lines
C24_Witness ==
    \E f \in 1..Len(spus) :
        /\ Len(spus[f].p_region) >= 3
        /\ spus[f].p_region[1].id # spus[f].p_region[3].id
        /\ \E i \in 1..2 : /\ spus[f].p_region[i].id = spus[f].p_region[i + 1].id
                           /\ spus[f].p_region[i].line = 2


(* ---- C23 ---- *)
\* start is target_pts converted from 90 kHz ticks to microseconds with the
\* fraction dropped: the integer for which 9 * start is the multiple of 9
\* next to 100 * target_pts on the side of zero
IsTicksToMicros(pts, start) ==
    IF pts >= 0
    THEN 9 * start <= 100 * pts /\ 100 * pts < 9 * start + 9
    ELSE 9 * start >= 100 * pts /\ 100 * pts > 9 * start - 9

\* C23: every frame object of either decoder has a display window of 1/30
\* second, stop = start + CLOCK_FREQ/30 (33333 microseconds); the start of
\* a SMPTE 2038 frame is its target_pts * 100 / 9 in integer arithmetic; the
\* start of a SCTE-35 frame is the input block's PTS.
C23_DisplayWindow ==
    /\ \A f \in 1..Len(spus) :
          /\ spus[f].i_stop = spus[f].i_start + 33333
          /\ IsTicksToMicros(spus[f].i_pts, spus[f].i_start)
    /\ s35.spu # "none" =>
          /\ s35.i_stop = s35.i_start + 33333
          /\ s35.i_start = s35.i_pts

\* a SMPTE 2038 frame whose target is not a multiple of 9 ticks, so that the
\* division drops a fraction, and a SCTE-35 frame returned to the host
C23_Witness ==
    /\ \E f \in 1..Len(spus) : spus[f].i_pts # 0 /\ 9 * spus[f].i_start # 100 * spus[f].i_pts
    /\ s35.spu = "returned"
    /\ s35.i_pts # 0

(* ---- C29 ---- *)
\* C29: a Decode call of the SCTE-35 decoder that received a block has
\* released it exactly once when it returns.
C29_BlockReleasedOnce ==
    s35.blk \in {"corrupted", "data"} => s35.released = 1

(* ---- C30 ---- *)
\* C30: when a Decode call returns NULL, no frame object created during the
\* call is left alive without anyone holding it; for the SMPTE 2038 decoder
\* the frame created by pes_cb is in p_sys->subpic until Decode returns it.
C30_NoFrameLeftAlive ==
    /\ s35.ret = "NULL" => s35.spu # "alive"
    /\ \A f \in 1..Len(spus) : spus[f].owner = "dec" => subpic = f


(* ---- C22 ---- *)
\* the places in the stream of the first and the last byte of a payload
FirstAt(pes) == pes[1].at
LastAt(pes) == pes[Len(pes)].at

\* C22: bytes accumulated before a discontinuity are never part of a PES
\* payload emitted after it: no emitted payload has bytes from both sides of
\* the discontinuity.
C22_NoPayloadAcrossDiscontinuity ==
    \A k \in 1..Len(emitted) :
        ~(FirstAt(emitted[k]) <= discAt /\ LastAt(emitted[k]) > discAt)

(* ---- C25 ---- *)
\* C25: whatever the split of a stream of whole transport packets over
\* push calls, the payloads delivered so far are the first of those
\* delivered when the whole stream is pushed in one call, byte for byte, and
\* when Decode has returned they are all of them.
C25_ChunkInvariance ==
    LET one == ExtractAll(BytesFrom(pushed, 0))
    IN /\ Len(emitted) <= Len(one)
       /\ emitted = SubSeq(one, 1, Len(emitted))
       /\ dpc = "idle" => emitted = one

\* a payload with bytes of two transport packets has been delivered, and two
\* frames were opened, so the packets came in two Decode calls
C25_Witness ==
    /\ dpc = "idle"
    /\ Len(spus) >= 2
    /\ \E k \in 1..Len(emitted) :
          FirstAt(emitted[k]) <= PktLen /\ LastAt(emitted[k]) > PktLen

(* ---- C26 ---- *)
\* payload pes is a whole PES packet of the stream: a start and the bytes
\* it declares, as they are in the stream
IsFramed(pes) ==
    /\ IsHdr(pes[1].tok)
    /\ Len(pes) = 1 + HdrLen(pes[1].tok)
    /\ \A i \in 1..Len(pes) :
          /\ pes[i].at = FirstAt(pes) + i - 1
          /\ pes[i].at \in 1..Len(pushed)
          /\ pes[i].tok = pushed[pes[i].at]

\* C26: the callback runs once for each PES packet of the stream, two of
\* them back to back in one transport packet included: the payloads are
\* whole PES packets, in stream order and without a byte in common; no PES
\* start is lost (each is in a delivered payload or still in the buffer);
\* and every callback enqueues its packet, whatever its PTS.
C26_EveryPesDelivered ==
    /\ \A k \in 1..Len(emitted) : IsFramed(emitted[k])
    /\ \A k \in 1..(Len(emitted) - 1) :
          LastAt(emitted[k]) < FirstAt(emitted[k + 1])
    /\ \A i \in 1..Len(pushed) :
          IsHdr(pushed[i]) =>
             \/ \E k \in 1..Len(emitted) :
                   FirstAt(emitted[k]) <= i /\ i <= LastAt(emitted[k])
             \/ \E j \in 1..Len(pe_buf) : pe_buf[j].at = i
    /\ npkt <= Len(emitted) /\ Len(emitted) <= npkt + 1
    /\ dpc = "idle" => npkt = Len(emitted)
    /\ Len(fifo) = npkt
    /\ \A k \in 1..Len(fifo) : fifo[k].id = k

\* one Decode call on one transport packet of two back-to-back PES packets:
\* two callbacks, on bytes 1..2 and 3..4, and two queued packets of
\* different PTS
C26_Witness ==
    /\ dpc = "idle"
    /\ pushed = <<"S1", "d", "S1", "d">>
    /\ Len(emitted) = 2
    /\ FirstAt(emitted[1]) = 1 /\ LastAt(emitted[1]) = 2
    /\ FirstAt(emitted[2]) = 3 /\ LastAt(emitted[2]) = 4
    /\ Len(fifo) = 2
    /\ fifo[1].i_pts # fifo[2].i_pts


(* ---- C31 ---- *)
\* C31: a Decode call whose block is flagged corrupted or has i_pts <= 0
\* returns NULL at once: nothing is pushed into the extractor, no callback
\* runs, and i_demux_pts, i_pts_skew, i_last_pts, the pending subpicture and
\* the fifo are as before.
C31_RejectedDecodeChangesNothing ==
    [][(call' # call /\ (call'.flags = "corrupted" \/ call'.i_pts <= 0)) =>
          /\ call'.ret = "NULL"
          /\ dpc' = "idle"
          /\ UNCHANGED <<pushed, pe_buf, emitted, npkt, i_demux_pts,
                         i_pts_skew, i_last_pts, subpic, fifo, spus>>]_vars

\* a block without the corrupted flag and with i_pts <= 0 was rejected by a
\* decoder that had a skew, queued packets and bytes in the extractor
C31_Witness ==
    /\ call.ret = "NULL"
    /\ call.flags = "none"
    /\ call.i_pts <= 0
    /\ i_pts_skew # 0
    /\ fifo # <<>>
    /\ pe_buf # <<>>


(* ---- C32 ---- *)
\* C32: a call of the updater whose fmt_dst has i_sar_num <= 0 or
\* i_sar_den <= 0 returns at once: it takes nothing off the fifo, adds no
\* region to any subpicture and does not enter the drain, so the queued
\* packets are there for a later call.
C32_InvalidSarDrainsNothing ==
    [][(fmt' # fmt /\ (fmt'.i_sar_num <= 0 \/ fmt'.i_sar_den <= 0)) =>
          /\ upc' = "idle"
          /\ UNCHANGED <<fifo, removed, spus, cur, p_block>>]_vars

\* the updater of a frame was called with a zero denominator while a packet
\* due for that frame was queued: the packet is still there
C32_Witness ==
    /\ fmt.called
    /\ fmt.i_sar_num > 0
    /\ fmt.i_sar_den <= 0
    /\ upc = "idle"
    /\ fifo # <<>>
    /\ \E f \in 1..Len(spus) :
          /\ spus[f].owner = "host"
          /\ Head(fifo).i_pts <= spus[f].i_pts
          /\ spus[f].p_region = <<>>

(* ---- mediacodec.c: flush and output thread ---- *)
\* the callers of DecodeFlushLocked
FlushCallers == {"DecodeFlush", "CloseDecoder", "discontinuity", "corrupted",
                 "newblock"}

\* the non-config blocks the codec was given since the last flush
DataQueued == {i \in 1..Len(mc_queued) : ~mc_queued[i].config}

\* C33: every call of DecodeFlushLocked, whoever made it, eventually
\* returns, under every interleaving with the output thread.
C33_EveryFlushReturns ==
    \A w \in FlushCallers : (caller.who = w) ~> (caller.who # w)

\* C34: when DecodeFlushLocked returns, b_flush_out is false or b_error is
\* true; b_flush_out becomes true only in a step that starts a
\* DecodeFlushLocked and becomes false only in a step of the output thread
\* at the head of its loop.
C34_FlushHandshake ==
    [][/\ (caller.who # "none" /\ caller' # caller) => (~b_flush_out \/ b_error)
       /\ (~b_flush_out /\ b_flush_out') =>
             (caller'.who # "none" /\ caller' # caller)
       /\ (b_flush_out /\ ~b_flush_out') =>
             (opc = "wait" /\ opc' = "wait" /\ mpc' = mpc /\ caller' = caller)]_vars

\* a flush that called api->flush has been acknowledged by the output
\* thread and is about to return, the decoder not being in the error state
C34_Witness ==
    /\ mpc = "flushwait"
    /\ caller.who = "discontinuity"
    /\ ~b_flush_out
    /\ ~b_error
    /\ mc_pending = 0
    /\ ncalls = MaxCalls

\* C35: while the output thread waits inside dequeue_out and the decoder is
\* not in the error state, a non-config block has been queued to the codec
\* since the most recent flush.
C35_DequeueOnlyWhenOutputReady ==
    (opc = "dq_out" /\ ~b_error) => DataQueued # {}

(* ---- mediacodec.c: queueing input ---- *)
\* C36: when the codec has been given a data block since its start or the
\* last flush, the blocks it was given before that one are all the CSD
\* blocks, in index order, each flagged as codec config.
C36_CsdQueuedFirst ==
    \A i \in DataQueued :
        /\ i > CsdCount
        /\ \A j \in 1..CsdCount :
              mc_queued[j] = [blk |-> CsdBlock(j - 1), config |-> TRUE]

\* C37: a try-again that invalidates the pictures is followed by a retry,
\* with no abort; the decoder is aborted for a timeout only when the
\* dequeue_in before it, in the same call, reported try-again too; after a
\* successful queue the next dequeue_in does not abort for a timeout.
C37_SingleRetryRearmed ==
    [][/\ n_invalidate' > n_invalidate =>
             (n_invalidate' = n_invalidate + 1 /\ mpc' = "dq_in" /\ ~b_error')
       /\ (aborted_by' = "timeout" /\ aborted_by # "timeout") =>
             (mpc = "dq_in" /\ last_in = "tryagain" /\ n_invalidate' = 0
                /\ b_error')
       /\ (mpc = "dq_in" /\ last_in = "queued") => aborted_by' # "timeout"]_vars

\* in one call of DecodeCommon, dequeue_in reported try-again, then a block
\* was queued, and a later try-again was retried again
C37_Witness ==
    /\ mpc = "dq_in"
    /\ n_invalidate = 2
    /\ last_in = "tryagain"
    /\ mc_queued # <<>>
    /\ ~b_error

====
